---------------------------- MODULE Spec2Model ----------------------------
(***************************************************************************)
(* WaveClean: the command surface (__main__), the input acquisition        *)
(* (extract_audio_from_mp4) and the seven-stage pipeline of                *)
(* process_advanced_audio, src/WaveClean.py.                               *)
(*                                                                         *)
(* A buffer is a sequence of frames.  A frame is a record                  *)
(*   [src |-> position of the frame in the decoded input, 0 for a frame    *)
(*            that a library call inserted, v |-> 16-bit sample value].    *)
(* Durations are in milliseconds, as pydub counts them.                    *)
(***************************************************************************)
EXTENDS Integers, Sequences, FiniteSets, TLC

VARIABLES
    pc,                   \* control point of the run
    argv,                 \* "none" | "audio" | "mp4": what sys.argv[1] names
    ffmpeg_path,          \* result of find_ffmpeg(): "None" | "local" | "ffmpeg"
    ffprobe_path,         \* result of find_ffprobe(): "None" | "local" | "ffprobe" | "bin"
    stdout,               \* set of the kinds of message printed so far
    exit_code,            \* -1 while running, then the process exit status
    started,              \* process_advanced_audio has been called
    temp_file,            \* "none" | "exists" | "removed"
    error,                \* "none", or the exception that ended the pipeline
    error_stage,          \* "none", or the stage that raised
    sample_rate,          \* frame rate of the decoded buffer (Hz)
    decoded,              \* the buffer as decoded (before any stage)
    samples,              \* the buffer flowing through the stages
    silence_threshold,    \* dBFS threshold given to the segmenter
    other_threshold,      \* a second threshold, for comparing two segmentations
    non_silent_intervals, \* librosa.effects.split(samples, top_db=abs(silence_threshold))
    other_intervals,      \* the same with other_threshold
    noise_samples,        \* list of collected silence gaps
    noise_signal,         \* the noise profile
    audio_chunks,         \* chunks returned by split_on_silence
    fade_times,           \* fade_time computed for each chunk
    faded_chunks,         \* chunks after fade_in / fade_out
    output,               \* concatenated / normalized / filtered output
    once,                 \* loudness after one application of the normalizer
    twice,                \* loudness after a second application
    output_file           \* TRUE once the export has written the output file

vars == << pc, argv, ffmpeg_path, ffprobe_path, stdout, exit_code, started, temp_file,
           error, error_stage, sample_rate, decoded, samples, silence_threshold,
           other_threshold, non_silent_intervals, other_intervals, noise_samples,
           noise_signal, audio_chunks, fade_times, faded_chunks, output, once,
           twice, output_file >>

envVars  == << argv >>
mainVars == << ffmpeg_path, ffprobe_path, stdout, exit_code, started >>
segVars  == << silence_threshold, other_threshold, non_silent_intervals, other_intervals >>
noiseVars == << noise_samples, noise_signal >>
chunkVars == << audio_chunks, fade_times, faded_chunks >>
normVars == << once, twice >>

-----------------------------------------------------------------------------
(* Bounds of the model *)

\* longest decoded buffer of a run, in frames
MaxFrames == 8
\* longest buffer given to the segmenter and the noise profile builder, in samples
MaxSamples == 6
\* longest chunk given to the fader alone, in milliseconds
MaxDuration == 210
\* longest buffer given to the normalizer alone, in frames
MaxNormFrames == 100
\* librosa frame_length (2048 in the source), scaled to the buffers above
frame_length == 4
\* librosa hop_length (512 in the source), scaled
hop_length == 2
\* int(min_silence_len * 1000) (200 ms in __main__), scaled
min_silence_len == 3
\* keep_silence (150 ms in the source), scaled
keep_silence == 2
\* scipy sosfiltfilt padlen of one second-order section (9 samples), scaled
padlen == 1

-----------------------------------------------------------------------------
(* Arithmetic helpers *)

Min(a, b) == IF a < b THEN a ELSE b
Max(a, b) == IF a > b THEN a ELSE b
Abs(a) == IF a < 0 THEN -a ELSE a

\* int(x / y) of Python for y > 0: truncation toward zero
TruncDiv(a, b) == IF a >= 0 THEN a \div b ELSE -((-a) \div b)

\* round(num / den) of Python 3: to nearest, ties to even
RoundHalfEven(num, den) ==
    LET q == num \div den
        r == num % den
    IN  IF 2 * r < den THEN q
        ELSE IF 2 * r > den THEN q + 1
        ELSE IF q % 2 = 0 THEN q ELSE q + 1

RECURSIVE ISqrtIn(_, _, _)
ISqrtIn(n, lo, hi) ==
    IF lo >= hi THEN lo
    ELSE LET mid == (lo + hi + 1) \div 2
         IN  IF mid * mid <= n THEN ISqrtIn(n, mid, hi) ELSE ISqrtIn(n, lo, mid - 1)

\* floor(sqrt(n)) for 0 <= n < 2^31
ISqrt(n) == ISqrtIn(n, 0, 46340)

RECURSIVE Pow10(_)
Pow10(k) == IF k <= 0 THEN 1 ELSE 10 * Pow10(k - 1)

RECURSIVE SumRange(_, _, _)
\* s[lo] + ... + s[hi], summed by halves
SumRange(s, lo, hi) ==
    IF lo > hi THEN 0
    ELSE IF lo = hi THEN s[lo]
    ELSE SumRange(s, lo, (lo + hi) \div 2) + SumRange(s, ((lo + hi) \div 2) + 1, hi)

SumSeq(s) == SumRange(s, 1, Len(s))

RECURSIVE Flatten(_)
Flatten(ss) == IF ss = << >> THEN << >> ELSE Head(ss) \o Flatten(Tail(ss))

MaxOf(S) == IF S = {} THEN 0 ELSE CHOOSE x \in S : \A y \in S : y <= x

Values(seg) == [i \in 1..Len(seg) |-> seg[i].v]
MapV(seg, F(_)) == [i \in 1..Len(seg) |-> [src |-> seg[i].src, v |-> F(seg[i].v)]]
Silence == [src |-> 0, v |-> 0]

-----------------------------------------------------------------------------
(* pydub.AudioSegment, as used by the pipeline *)

\* largest and smallest 16-bit sample
MaxSample == 32767
MinSample == -32768
\* db_to_float(-50) * max_possible_amplitude, the rms a silent slice may not exceed
SilenceThreshAmp == 103
\* max_possible_amplitude * db_to_float(-1.5): the peak that normalize() aims at
TargetPeak == 27571
\* max_possible_amplitude * db_to_float(-16.0): the rms of the target loudness
TargetRms == 5193

\* len(seg): round(1000 * frame_count / frame_rate)
DurationMs(seg, rate) == RoundHalfEven(1000 * Len(seg), rate)

\* int(seg.frame_count(ms)) = int(ms * (frame_rate / 1000.0))
FrameCountMs(ms, rate) == (ms * rate) \div 1000

\* seg._parse_position(val)
ParsePosition(val, len, rate) ==
    FrameCountMs(IF val < 0 THEN len - Abs(val) ELSE val, rate)

\* seg[start:end] (milliseconds); a slice that comes up short of the frames
\* its bounds ask for is filled with silent frames
Slice(seg, rate, start, end) ==
    LET len == DurationMs(seg, rate)
        s == ParsePosition(Min(start, len), len, rate)
        e == ParsePosition(Min(end, len), len, rate)
        data == SubSeq(seg, s + 1, Min(e, Len(seg)))
        missing == (e - s) - Len(data)
    IN  IF missing > 0 THEN data \o [i \in 1..missing |-> Silence] ELSE data

\* floor of the mean of the squares, without leaving 32 bits
MeanSquare(vals) ==
    LET n == Len(vals)
        q == [i \in 1..n |-> (vals[i] * vals[i]) \div n]
        r == [i \in 1..n |-> (vals[i] * vals[i]) % n]
    IN  IF n = 0 THEN 0 ELSE SumSeq(q) + (SumSeq(r) \div n)

\* seg.rms (audioop.rms): the truncated root of the mean square, 0 when empty
Rms(seg) == ISqrt(MeanSquare(Values(seg)))

\* seg.max (audioop.max): the largest absolute sample, 0 when empty
Peak(seg) == MaxOf({Abs(seg[i].v) : i \in 1..Len(seg)})

\* audioop.mul(data, 2, num / den): scale, saturate to 16 bits, round down
Clip(v) == IF v > MaxSample THEN MaxSample ELSE IF v < MinSample THEN MinSample ELSE v
Mul(seg, num, den) ==
    [i \in 1..Len(seg) |-> [src |-> seg[i].src, v |-> Clip((seg[i].v * num) \div den)]]

-----------------------------------------------------------------------------
(* pydub.silence *)

RECURSIVE SilenceStarts(_, _, _, _)
\* the slice starts i .. last whose min_silence_len window is silent, ascending
SilenceStarts(seg, rate, i, last) ==
    IF i > last THEN << >>
    ELSE (IF Rms(Slice(seg, rate, i, i + min_silence_len)) <= SilenceThreshAmp
          THEN << i >> ELSE << >>) \o SilenceStarts(seg, rate, i + 1, last)

RECURSIVE CombineRanges(_, _, _)
\* the loop of detect_silence that merges the silent starts into ranges
CombineRanges(starts, current_range_start, prev_i) ==
    IF starts = << >> THEN << << current_range_start, prev_i + min_silence_len >> >>
    ELSE LET silence_start_i == Head(starts)
             continuous == (silence_start_i = prev_i + 1)
             silence_has_gap == silence_start_i > prev_i + min_silence_len
         IN  IF ~continuous /\ silence_has_gap
             THEN << << current_range_start, prev_i + min_silence_len >> >>
                  \o CombineRanges(Tail(starts), silence_start_i, silence_start_i)
             ELSE CombineRanges(Tail(starts), current_range_start, silence_start_i)

\* the ranges detect_silence returns for a non-empty list of silent starts
SilentRanges(starts) ==
    IF starts = << >> THEN << >>
    ELSE CombineRanges(Tail(starts), Head(starts), Head(starts))

\* detect_silence(seg, min_silence_len, silence_thresh, seek_step=1)
DetectSilence(seg, rate) ==
    LET seg_len == DurationMs(seg, rate)
    IN  IF seg_len < min_silence_len THEN << >>
        ELSE SilentRanges(SilenceStarts(seg, rate, 0, seg_len - min_silence_len))

RECURSIVE Complement(_, _, _)
\* the loop of detect_nonsilent over the silent ranges
Complement(silent_ranges, prev_end_i, len_seg) ==
    IF silent_ranges = << >> THEN << >>
    ELSE LET r == Head(silent_ranges)
         IN  << << prev_end_i, r[1] >> >>
             \o (IF Tail(silent_ranges) = << >>
                 THEN (IF r[2] # len_seg THEN << << r[2], len_seg >> >> ELSE << >>)
                 ELSE Complement(Tail(silent_ranges), r[2], len_seg))

\* the tail of detect_nonsilent: drop the empty first range at the start
DropEmptyFirst(nonsilent_ranges) ==
    IF nonsilent_ranges[1] = << 0, 0 >> THEN Tail(nonsilent_ranges)
    ELSE nonsilent_ranges

\* detect_nonsilent, given the silent ranges and the length in milliseconds
NonsilentRanges(silent_ranges, len_seg) ==
    IF silent_ranges = << >> THEN << << 0, len_seg >> >>
    ELSE IF silent_ranges[1][1] = 0 /\ silent_ranges[1][2] = len_seg THEN << >>
    ELSE DropEmptyFirst(Complement(silent_ranges, 0, len_seg))

\* detect_nonsilent(seg, min_silence_len, silence_thresh, seek_step=1)
DetectNonsilent(seg, rate) ==
    NonsilentRanges(DetectSilence(seg, rate), DurationMs(seg, rate))

\* [start - keep_silence, end + keep_silence] for each non-silent range
PadRanges(ns) ==
    [i \in 1..Len(ns) |-> << ns[i][1] - keep_silence, ns[i][2] + keep_silence >>]

\* range_i with its start moved to the middle of an overlap with range_(i-1)
OverlapStart(padded, i) ==
    IF i > 1 /\ padded[i][1] < padded[i - 1][2]
    THEN (padded[i - 1][2] + padded[i][1]) \div 2
    ELSE padded[i][1]

\* range_i with its end moved to the middle of an overlap with range_(i+1)
OverlapEnd(padded, i) ==
    IF i < Len(padded) /\ padded[i + 1][1] < padded[i][2]
    THEN (padded[i][2] + padded[i + 1][1]) \div 2
    ELSE padded[i][2]

\* the pairwise loop of split_on_silence over the padded ranges
SplitOverlaps(padded) ==
    [i \in 1..Len(padded) |-> << OverlapStart(padded, i), OverlapEnd(padded, i) >>]

\* the ranges of split_on_silence: padded by keep_silence, overlaps split midway
OutputRanges(seg, rate) == SplitOverlaps(PadRanges(DetectNonsilent(seg, rate)))

\* seg[max(start, 0):min(end, len(seg))] for each output range
SliceRanges(seg, rate, ranges, len) ==
    [i \in 1..Len(ranges) |->
       Slice(seg, rate, Max(ranges[i][1], 0), Min(ranges[i][2], len))]

\* silence.split_on_silence(seg, silence_thresh, min_silence_len, keep_silence)
SplitOnSilence(seg, rate) ==
    SliceRanges(seg, rate, OutputRanges(seg, rate), DurationMs(seg, rate))

-----------------------------------------------------------------------------
(* Fades (AudioSegment.fade_in, fade_out) *)

\* longest fade, in milliseconds ("Maximum 50ms fade")
MaxFade == 50
\* a fade is at most one part in FadeDivisor of the chunk
FadeDivisor == 4

\* fade_time = min(50, duration // 4)
FadeTime(duration) == Min(MaxFade, duration \div FadeDivisor)

\* seg.fade(duration=0, ...) computes end - start with one of them None and
\* raises TypeError; a negative duration raises InvalidDuration
FadeRaises(duration) == duration <= 0

\* the frames of the fade itself: frame int(start_frame + i) scaled by
\* num(i) / (duration * rate / 1000), for i < int(fade_frames); get_frame past
\* the end of the data yields nothing
FadePortion(seg, rate, start, duration, Num(_)) ==
    LET den == duration * rate
        n == FrameCountMs(duration, rate)
        start_frame == FrameCountMs(start, rate)
        present == Max(0, Min(n, Len(seg) - start_frame))
    IN  [k \in 1..present |->
           [src |-> seg[start_frame + k].src,
            v |-> Clip((seg[start_frame + k].v * Num(k - 1)) \div den)]]

\* seg.fade_in(duration) = seg.fade(from_gain=-120, duration=duration, start=0)
FadeIn(seg, rate, duration) ==
    LET len == DurationMs(seg, rate)
        start == Min(len, 0)
        end == start + duration
        up(i) == 1000 * i
    IN  Mul(Slice(seg, rate, 0, start), 0, 1)
        \o FadePortion(seg, rate, start, duration, up)
        \o Slice(seg, rate, end, len)

\* seg.fade_out(duration) = seg.fade(to_gain=-120, duration=duration, end=inf)
FadeOut(seg, rate, duration) ==
    LET len == DurationMs(seg, rate)
        end == len
        start == end - duration
        down(i) == duration * rate - 1000 * i
    IN  Slice(seg, rate, 0, start)
        \o FadePortion(seg, rate, start, duration, down)
        \o Mul(Slice(seg, rate, end, len), 0, 1)

\* chunk.fade_in(fade_time).fade_out(fade_time)
FadeChunk(chunk, rate, fade_time) ==
    FadeOut(FadeIn(chunk, rate, fade_time), rate, fade_time)

-----------------------------------------------------------------------------
(* Filters *)

\* cutoff of the pre-filter (Hz)
PreCutoff == 80
\* breath_cutoff passed by __main__ (Hz)
BreathCutoff == 100
\* cutoffs of the post-filter (Hz)
LowPassCutoff == 10000
PostHighPassCutoff == 120

\* 2 * pi * cutoff
TwoPiC(cutoff) == (6283 * cutoff) \div 1000
\* alpha of pydub's low_pass_filter, dt / (RC + dt), in thousandths
LowAlpha(rate, cutoff) == (1000 * TwoPiC(cutoff)) \div (rate + TwoPiC(cutoff))
\* alpha of pydub's high_pass_filter, RC / (RC + dt), in thousandths
HighAlpha(rate, cutoff) == (1000 * rate) \div (rate + TwoPiC(cutoff))

\* pydub's filters read original[0] before anything else: IndexError when empty.
\* They never compare the cutoff with the frame rate.
RCFilterRaises(seg) == Len(seg) = 0

RECURSIVE LowPassFrom(_, _, _, _)
LowPassFrom(vals, i, last_val, alpha) ==
    IF i > Len(vals) THEN << >>
    ELSE LET nv == last_val + TruncDiv(alpha * (vals[i] - last_val), 1000)
         IN  << nv >> \o LowPassFrom(vals, i + 1, nv, alpha)

\* seg.low_pass_filter(cutoff)
LowPassFilter(seg, rate, cutoff) ==
    LET vals == Values(seg)
        out == << vals[1] >> \o LowPassFrom(vals, 2, vals[1], LowAlpha(rate, cutoff))
    IN  [i \in 1..Len(seg) |-> [src |-> seg[i].src, v |-> out[i]]]

RECURSIVE HighPassFrom(_, _, _, _)
HighPassFrom(vals, i, last_val, alpha) ==
    IF i > Len(vals) THEN << >>
    ELSE LET nv == TruncDiv(alpha * (last_val + vals[i] - vals[i - 1]), 1000)
         IN  << Clip(nv) >> \o HighPassFrom(vals, i + 1, nv, alpha)

HighPassValues(vals, rate, cutoff) ==
    IF vals = << >> THEN << >>
    ELSE << vals[1] >> \o HighPassFrom(vals, 2, vals[1], HighAlpha(rate, cutoff))

\* seg.high_pass_filter(cutoff)
HighPassFilter(seg, rate, cutoff) ==
    LET out == HighPassValues(Values(seg), rate, cutoff)
    IN  [i \in 1..Len(seg) |-> [src |-> seg[i].src, v |-> out[i]]]

Reverse(s) == [i \in 1..Len(s) |-> s[Len(s) + 1 - i]]

\* the filter design accepts any cutoff
ButterRaises_Never(rate, cutoff) == FALSE
\* signal.butter(2, cutoff, 'hp', fs=rate) rejects a cutoff outside 0 < Wn < fs/2
ButterRaises(rate, cutoff) == cutoff <= 0 \/ 2 * cutoff >= rate

\* signal.sosfiltfilt rejects an input no longer than its padding
SosfiltfiltRaises(y) == Len(y) <= padlen

\* signal.sosfiltfilt(sos, y): a high-pass run forward, then backward; one
\* output sample per input sample
Sosfiltfilt(y, rate, cutoff) ==
    LET fwd == HighPassValues(Values(y), rate, cutoff)
        bwd == Reverse(HighPassValues(Reverse(fwd), rate, cutoff))
    IN  [i \in 1..Len(y) |-> [src |-> y[i].src, v |-> bwd[i]]]

-----------------------------------------------------------------------------
(* Spectral reducer and compressor: one output sample per input sample *)

\* max_possible_amplitude * db_to_float(-35): threshold of the compressor
CompressThreshAmp == 582
\* ratio of the compressor
CompressRatio == 4

\* nr.reduce_noise(y, y_noise, prop_decrease = prop / 100): what lies in the
\* noise range is decreased by prop percent, the rest is kept
ReduceNoise(y, prop) ==
    LET gate(v) == IF Abs(v) <= SilenceThreshAmp THEN v - TruncDiv(v * prop, 100) ELSE v
    IN  MapV(y, gate)

\* compress_dynamic_range(seg, threshold=-35, ratio=4.0, attack=5, release=50):
\* what exceeds the threshold exceeds it by a quarter of the amount
CompressDynamicRange(seg) ==
    LET comp(v) == IF Abs(v) <= CompressThreshAmp THEN v
                   ELSE IF v > 0 THEN CompressThreshAmp + (v - CompressThreshAmp) \div CompressRatio
                   ELSE -(CompressThreshAmp + (-v - CompressThreshAmp) \div CompressRatio)
    IN  MapV(seg, comp)

-----------------------------------------------------------------------------
(* Normalizer *)

\* pydub.effects.normalize(seg, headroom=1.5): a silent segment is returned as is
Normalize(seg) ==
    IF Peak(seg) = 0 THEN seg ELSE Mul(seg, TargetPeak, Peak(seg))

\* what audioop.mul may store for 0 * inf (the conversion of a NaN to an integer)
NanSamples == {0, MinSample}

\* seg.apply_gain(target_dBFS - seg.dBFS): the gain is target rms / measured rms.
\* For rms = 0, dBFS is -inf and the gain infinite: a non-zero sample saturates
\* and a zero sample becomes nan, one of NanSamples
ApplyTargetGain(seg, nan) ==
    LET inf(v) == IF v > 0 THEN MaxSample ELSE IF v < 0 THEN MinSample ELSE nan
    IN  IF Rms(seg) = 0 THEN MapV(seg, inf) ELSE Mul(seg, TargetRms, Rms(seg))

\* normalize(output, headroom=1.5), then apply_gain(target_dBFS - output.dBFS)
NormalizerStage(seg, nan) == ApplyTargetGain(Normalize(seg), nan)

-----------------------------------------------------------------------------
(* Segmenter: librosa.effects.split *)

\* librosa's amin (1e-10 in power), in the unit of a frame's sum of squares
Amin == 2

\* number of analysis frames of a centred signal of n samples
NumFrames(n) == 1 + (n + 2 * (frame_length \div 2) - frame_length) \div hop_length

\* sum of squares of analysis frame t (from 0): the signal is padded with
\* frame_length // 2 zeros on both sides
FramePower(vals, t) ==
    LET first == t * hop_length - (frame_length \div 2) + 1
        sq == [k \in 1..frame_length |->
                 LET i == first + k - 1
                 IN  IF i >= 1 /\ i <= Len(vals) THEN vals[i] * vals[i] ELSE 0]
    IN  SumSeq(sq)

\* db > -top_db, where db = 10 log10(max(amin, power)) - 10 log10(max(amin, ref))
\* and ref is the largest frame power: max(amin, power) * 10^(top_db/10) exceeds
\* max(amin, ref)
NonSilentFrame(power, ref, top_db) ==
    Max(Amin, power) > Max(Amin, ref) \div Pow10(top_db \div 10)

\* top_db=abs(silence_threshold)
TopDb_FromFloor(threshold) == 60 + threshold
TopDb(threshold) == Abs(threshold)

RECURSIVE Runs(_, _, _, _)
\* the maximal runs of TRUE of non_silent from frame t on, as frame ranges;
\* open is the start of the run in progress, or -1
Runs(non_silent, t, open, n) ==
    IF t = n THEN (IF open >= 0 THEN << << open, n >> >> ELSE << >>)
    ELSE IF non_silent[t + 1]
         THEN Runs(non_silent, t + 1, IF open >= 0 THEN open ELSE t, n)
         ELSE (IF open >= 0 THEN << << open, t >> >> ELSE << >>)
              \o Runs(non_silent, t + 1, -1, n)

\* librosa.effects.split(y, top_db, frame_length, hop_length): the edges in
\* frames, converted to samples and clipped to the length of the signal
Split(y, top_db) ==
    LET vals == Values(y)
        n == NumFrames(Len(y))
        power == [t \in 1..n |-> FramePower(vals, t - 1)]
        ref == MaxOf({power[t] : t \in 1..n})
        non_silent == [t \in 1..n |-> NonSilentFrame(power[t], ref, top_db)]
        edges == Runs(non_silent, 0, -1, n)
    IN  [k \in 1..Len(edges) |->
           << Min(edges[k][1] * hop_length, Len(y)), Min(edges[k][2] * hop_length, Len(y)) >>]

-----------------------------------------------------------------------------
(* Noise profile builder *)

RECURSIVE CollectNoise(_, _, _)
\* the loop over non_silent_intervals: the gap before each interval
CollectNoise(intervals, prev_end, y) ==
    IF intervals = << >> THEN << >>
    ELSE LET start == Head(intervals)[1]
             end == Head(intervals)[2]
             noise_segment == SubSeq(y, prev_end + 1, start)
         IN  (IF start > prev_end /\ Len(noise_segment) > 0
              THEN << noise_segment >> ELSE << >>)
             \o CollectNoise(Tail(intervals), end, y)

\* a[:n], the slice that stops at the end of a shorter array
Take(a, n) == SubSeq(a, 1, Min(n, Len(a)))

\* np.tile(a, reps)
Tile(a, reps) == [i \in 1..(Len(a) * reps) |-> a[((i - 1) % Len(a)) + 1]]

\* number of repetitions: (sample_rate // len(noise_signal)) + 1
TileReps_NoExtra(rate, n) == rate \div n
TileReps(rate, n) == (rate \div n) + 1

\* the noise profile
NoiseSignal(noise, y, rate) ==
    IF Len(noise) > 0
    THEN LET noise_signal_0 == Flatten(noise)
         IN  IF Len(noise_signal_0) < rate
             THEN Take(Tile(noise_signal_0, TileReps(rate, Len(noise_signal_0))), rate)
             ELSE noise_signal_0
    ELSE Take(y, rate)

-----------------------------------------------------------------------------
(* Inputs and idle values *)

\* sample values of the buffers given to the segmenter
SegLevels == {0, 10, 3000}
\* silence thresholds (dBFS): the one of __main__, the default, and a coarse one
Thresholds == {-50, -40, -20}
\* sample rates of the buffers given to the noise profile builder
NoiseRates == 2..(MaxSamples - 1)

\* the buffers of n frames with values in levels
BuffersOfLen(levels, n) ==
    {[i \in 1..n |-> [src |-> i, v |-> f[i]]] : f \in [1..n -> levels]}
Buffers(levels, lo, hi) == UNION {BuffersOfLen(levels, n) : n \in lo..hi}

EnvOff == argv = "none"
MainOff == /\ ffmpeg_path = "None" /\ ffprobe_path = "None" /\ stdout = {}
           /\ exit_code = -1 /\ started = FALSE
RunOff == /\ temp_file = "none" /\ error = "none" /\ error_stage = "none"
          /\ output_file = FALSE
SegOff == /\ silence_threshold = -50 /\ other_threshold = -50
          /\ non_silent_intervals = << >> /\ other_intervals = << >>
NoiseOff == noise_samples = << >> /\ noise_signal = << >>
ChunkOff == audio_chunks = << >> /\ fade_times = << >> /\ faded_chunks = << >>
NormOff == once = 0 /\ twice = 0

\* the samples that the intervals cover (positions from 1)
Covered(intervals) ==
    UNION {(intervals[k][1] + 1)..intervals[k][2] : k \in 1..Len(intervals)}

-----------------------------------------------------------------------------
(* The segmenter and the noise profile builder on a buffer (lines 139-160) *)

NoiseInit ==
    /\ pc = "segment"
    /\ samples \in Buffers(SegLevels, 1, MaxSamples)
    /\ decoded = samples
    /\ sample_rate \in NoiseRates
    /\ silence_threshold \in Thresholds
    /\ other_threshold = silence_threshold
    /\ non_silent_intervals = << >> /\ other_intervals = << >>
    /\ output = << >>
    /\ EnvOff /\ MainOff /\ RunOff /\ NoiseOff /\ ChunkOff /\ NormOff

\* lines 139-144
Segment ==
    /\ pc = "segment"
    /\ non_silent_intervals' = Split(samples, TopDb(silence_threshold))
    /\ pc' = "collect"
    /\ UNCHANGED << envVars, mainVars, temp_file, error, error_stage, sample_rate,
                    decoded, samples, silence_threshold, other_threshold,
                    other_intervals, noiseVars, chunkVars, output, normVars,
                    output_file >>

\* lines 146-153
CollectGaps ==
    /\ pc = "collect"
    /\ noise_samples' = CollectNoise(non_silent_intervals, 0, samples)
    /\ pc' = "profile"
    /\ UNCHANGED << envVars, mainVars, temp_file, error, error_stage, sample_rate,
                    decoded, samples, segVars, noise_signal, chunkVars, output,
                    normVars, output_file >>

\* lines 155-160
BuildProfile ==
    /\ pc = "profile"
    /\ noise_signal' = NoiseSignal(noise_samples, samples, sample_rate)
    /\ pc' = "profiled"
    /\ UNCHANGED << envVars, mainVars, temp_file, error, error_stage, sample_rate,
                    decoded, samples, segVars, noise_samples, chunkVars, output,
                    normVars, output_file >>

NoiseNext == Segment \/ CollectGaps \/ BuildProfile

NoiseSpec == NoiseInit /\ [][NoiseNext]_vars

-----------------------------------------------------------------------------
(* The segmenter run on one buffer with two thresholds *)

SegInit ==
    /\ pc = "split"
    /\ samples \in Buffers(SegLevels, 1, MaxSamples)
    /\ decoded = samples
    /\ sample_rate = 0
    /\ silence_threshold \in Thresholds
    /\ other_threshold \in Thresholds
    /\ non_silent_intervals = << >> /\ other_intervals = << >>
    /\ output = << >>
    /\ EnvOff /\ MainOff /\ RunOff /\ NoiseOff /\ ChunkOff /\ NormOff

\* lines 139-144 with silence_threshold
SegmentFirst ==
    /\ pc = "split"
    /\ non_silent_intervals' = Split(samples, TopDb(silence_threshold))
    /\ pc' = "split_other"
    /\ UNCHANGED << envVars, mainVars, temp_file, error, error_stage, sample_rate,
                    decoded, samples, silence_threshold, other_threshold,
                    other_intervals, noiseVars, chunkVars, output, normVars,
                    output_file >>

\* lines 139-144 with other_threshold
SegmentOther ==
    /\ pc = "split_other"
    /\ other_intervals' = Split(samples, TopDb(other_threshold))
    /\ pc' = "compared"
    /\ UNCHANGED << envVars, mainVars, temp_file, error, error_stage, sample_rate,
                    decoded, samples, silence_threshold, other_threshold,
                    non_silent_intervals, noiseVars, chunkVars, output, normVars,
                    output_file >>

SegNext == SegmentFirst \/ SegmentOther

SegSpec == SegInit /\ [][SegNext]_vars

-----------------------------------------------------------------------------
(* Claims about the noise profile and the segmenter *)

CollectedNoise == Flatten(noise_samples)

C2_AllGapsCollected ==
    pc \in {"profile", "profiled"} =>
        LET silent(f) == f.src \notin Covered(non_silent_intervals)
        IN  CollectedNoise = SelectSeq(samples, silent)

\* C8: for thresholds T1 < T2, the samples covered by the intervals found with
\* T2 are among those found with T1, so T2 never covers more samples
C8_ThresholdMonotone ==
    (pc = "compared" /\ silence_threshold < other_threshold) =>
        /\ Covered(other_intervals) \subseteq Covered(non_silent_intervals)
        /\ Cardinality(Covered(other_intervals))
              <= Cardinality(Covered(non_silent_intervals))

C8_Witness ==
    /\ pc = "compared"
    /\ silence_threshold < other_threshold
    /\ Covered(other_intervals) # {}
    /\ Covered(other_intervals) # Covered(non_silent_intervals)

-----------------------------------------------------------------------------
(* The fader on one chunk (body of the loop of lines 205-208) *)

\* sample value of a voiced frame
Loud == 10000

\* a chunk of d milliseconds at 1000 frames per second
ChunkOfDuration(d) == [i \in 1..d |-> [src |-> i, v |-> Loud]]

FadeInit ==
    /\ pc = "fade_time"
    /\ sample_rate = 1000
    /\ \E d \in 0..MaxDuration : audio_chunks = << ChunkOfDuration(d) >>
    /\ fade_times = << >> /\ faded_chunks = << >>
    /\ decoded = << >> /\ samples = << >> /\ output = << >>
    /\ EnvOff /\ MainOff /\ RunOff /\ SegOff /\ NoiseOff /\ NormOff

\* lines 206-207
ComputeFade ==
    /\ pc = "fade_time"
    /\ fade_times' = << FadeTime(DurationMs(audio_chunks[1], sample_rate)) >>
    /\ pc' = "fade_in"
    /\ UNCHANGED << envVars, mainVars, temp_file, error, error_stage, sample_rate,
                    decoded, samples, segVars, noiseVars, audio_chunks, faded_chunks,
                    output, normVars, output_file >>

\* line 208, chunk.fade_in(fade_time)
FadeInChunk ==
    /\ pc = "fade_in"
    /\ IF FadeRaises(fade_times[1])
       THEN /\ error' = "TypeError" /\ error_stage' = "fade" /\ pc' = "raised"
            /\ UNCHANGED faded_chunks
       ELSE /\ faded_chunks' = << FadeIn(audio_chunks[1], sample_rate, fade_times[1]) >>
            /\ pc' = "fade_out"
            /\ UNCHANGED << error, error_stage >>
    /\ UNCHANGED << envVars, mainVars, temp_file, sample_rate, decoded, samples,
                    segVars, noiseVars, audio_chunks, fade_times, output, normVars,
                    output_file >>

\* line 208, .fade_out(fade_time)
FadeOutChunk ==
    /\ pc = "fade_out"
    /\ IF FadeRaises(fade_times[1])
       THEN /\ error' = "TypeError" /\ error_stage' = "fade" /\ pc' = "raised"
            /\ UNCHANGED faded_chunks
       ELSE /\ faded_chunks' = << FadeOut(faded_chunks[1], sample_rate, fade_times[1]) >>
            /\ pc' = "faded"
            /\ UNCHANGED << error, error_stage >>
    /\ UNCHANGED << envVars, mainVars, temp_file, sample_rate, decoded, samples,
                    segVars, noiseVars, audio_chunks, fade_times, output, normVars,
                    output_file >>

FadeNext == ComputeFade \/ FadeInChunk \/ FadeOutChunk

FadeSpec == FadeInit /\ [][FadeNext]_vars

\* C6: every chunk gets the fade min(50 ms, duration / 4), which is at most
\* 50 ms, at most a quarter of the chunk, never negative, fade-in plus fade-out
\* fit in the chunk, and fading never fails, also for a chunk under 4 ms
C6_FadeBoundedNoError ==
    /\ pc # "raised"
    /\ pc \in {"fade_in", "fade_out", "faded"} =>
          LET duration == DurationMs(audio_chunks[1], sample_rate)
              fade_time == fade_times[1]
          IN  /\ fade_time = Min(50, duration \div 4)
              /\ fade_time <= 50
              /\ 4 * fade_time <= duration
              /\ fade_time >= 0
              /\ 2 * fade_time <= duration

-----------------------------------------------------------------------------
(* The normalizer applied twice to one buffer (lines 212-213) *)

\* values of the frames given to the normalizer
PeakLevels == {3000, 20000, -20000}
QuietLevels == {0, 200}

\* spikes frames at value hi followed by frames at value lo, n frames in all
SpikyBuffer(n, spikes, hi, lo) ==
    [i \in 1..n |-> [src |-> i, v |-> IF i <= spikes THEN hi ELSE lo]]

NormInit ==
    /\ pc = "normalize"
    /\ sample_rate = 1000
    /\ \E n \in 1..MaxNormFrames, spikes \in 1..2, hi \in PeakLevels, lo \in QuietLevels :
          /\ spikes <= n
          /\ output = SpikyBuffer(n, spikes, hi, lo)
    /\ decoded = << >> /\ samples = << >>
    /\ EnvOff /\ MainOff /\ RunOff /\ SegOff /\ NoiseOff /\ ChunkOff /\ NormOff

\* lines 212-213
NormalizeOnce ==
    /\ pc = "normalize"
    /\ \E nan \in NanSamples :
          /\ output' = NormalizerStage(output, nan)
          /\ once' = Rms(NormalizerStage(output, nan))
    /\ pc' = "normalize_again"
    /\ UNCHANGED << envVars, mainVars, temp_file, error, error_stage, sample_rate,
                    decoded, samples, segVars, noiseVars, chunkVars, twice,
                    output_file >>

\* lines 212-213, on their own result
NormalizeAgain ==
    /\ pc = "normalize_again"
    /\ \E nan \in NanSamples :
          /\ output' = NormalizerStage(output, nan)
          /\ twice' = Rms(NormalizerStage(output, nan))
    /\ pc' = "normalized_twice"
    /\ UNCHANGED << envVars, mainVars, temp_file, error, error_stage, sample_rate,
                    decoded, samples, segVars, noiseVars, chunkVars, once,
                    output_file >>

NormNext == NormalizeOnce \/ NormalizeAgain

NormSpec == NormInit /\ [][NormNext]_vars

\* C10: normalizing a non-silent buffer a second time with the same target
\* leaves its measured loudness where the first normalization put it (within
\* half a percent of the rms, 0.04 dB)
C10_NormalizeIdempotent ==
    pc = "normalized_twice" => 200 * Abs(twice - once) <= once

-----------------------------------------------------------------------------
(* The command surface and the pipeline: one run of the program *)

\* frame rates of the decoded buffers (Hz)
RunRates == {150, 200, 1000, 2000}
\* sample values of the decoded buffers
RunLevels == {0, Loud}

\* find_ffmpeg(): the script directory first, then PATH
find_ffmpeg(local_ffmpeg, path_ffmpeg) ==
    IF local_ffmpeg THEN "local" ELSE IF path_ffmpeg THEN "ffmpeg" ELSE "None"

\* find_ffprobe(): the script directory, then PATH, then beside an ffmpeg that
\* was found as a full path (where it was already looked for), then its bin folder
find_ffprobe(local_ffprobe, path_ffprobe, bin_ffprobe, ffmpeg) ==
    IF local_ffprobe THEN "local"
    ELSE IF path_ffprobe THEN "ffprobe"
    ELSE IF ffmpeg # "None" /\ ffmpeg # "ffmpeg"
         THEN (IF local_ffprobe THEN "local" ELSE IF bin_ffprobe THEN "bin" ELSE "None")
         ELSE "None"

Init ==
    /\ pc = "find_ffmpeg"
    /\ argv \in {"none", "audio", "mp4"}
    /\ sample_rate = 0
    /\ decoded = << >> /\ samples = << >> /\ output = << >>
    /\ MainOff /\ RunOff /\ SegOff /\ NoiseOff /\ ChunkOff /\ NormOff

runData == << temp_file, error, error_stage, sample_rate, decoded, samples, segVars,
              noiseVars, chunkVars, output, normVars, output_file >>

\* line 225
FindFfmpeg ==
    /\ pc = "find_ffmpeg"
    /\ \E local_ffmpeg \in BOOLEAN, path_ffmpeg \in BOOLEAN :
          ffmpeg_path' = find_ffmpeg(local_ffmpeg, path_ffmpeg)
    /\ pc' = "find_ffprobe"
    /\ UNCHANGED << argv, ffprobe_path, stdout, exit_code, started, runData >>

\* line 226
FindFfprobe ==
    /\ pc = "find_ffprobe"
    /\ \E local_ffprobe \in BOOLEAN, path_ffprobe \in BOOLEAN, bin_ffprobe \in BOOLEAN :
          ffprobe_path' = find_ffprobe(local_ffprobe, path_ffprobe, bin_ffprobe, ffmpeg_path)
    /\ pc' = "configure"
    /\ UNCHANGED << argv, ffmpeg_path, stdout, exit_code, started, runData >>

\* lines 229-236
Configure ==
    /\ pc = "configure"
    /\ stdout' = stdout \cup (IF ffmpeg_path # "None" THEN {"using_ffmpeg"} ELSE {})
                        \cup (IF ffprobe_path # "None" THEN {"using_ffprobe"} ELSE {})
    /\ pc' = "check_argv"
    /\ UNCHANGED << argv, ffmpeg_path, ffprobe_path, exit_code, started, runData >>

\* lines 238-245
Usage ==
    /\ pc = "check_argv"
    /\ argv = "none"
    /\ stdout' = stdout \cup {"usage"}
                        \cup (IF ffmpeg_path = "None" \/ ffprobe_path = "None"
                              THEN {"instructions"} ELSE {})
    /\ exit_code' = 1
    /\ pc' = "exit"
    /\ UNCHANGED << argv, ffmpeg_path, ffprobe_path, started, runData >>

\* lines 250-253
NoFfmpeg ==
    /\ pc = "check_argv"
    /\ argv # "none"
    /\ ffmpeg_path = "None"
    /\ stdout' = stdout \cup {"error_ffmpeg", "instructions"}
    /\ exit_code' = 1
    /\ pc' = "exit"
    /\ UNCHANGED << argv, ffmpeg_path, ffprobe_path, started, runData >>

\* lines 255-259
NoFfprobe ==
    /\ pc = "check_argv"
    /\ argv # "none"
    /\ ffmpeg_path # "None"
    /\ ffprobe_path = "None"
    /\ stdout' = stdout \cup {"error_ffprobe", "instructions"}
    /\ exit_code' = 1
    /\ pc' = "exit"
    /\ UNCHANGED << argv, ffmpeg_path, ffprobe_path, started, runData >>

\* lines 261-272: the call of process_advanced_audio inside the try
CallPipeline ==
    /\ pc = "check_argv"
    /\ argv # "none"
    /\ ffmpeg_path # "None"
    /\ ffprobe_path # "None"
    /\ started' = TRUE
    /\ pc' = "acquire"
    /\ UNCHANGED << argv, ffmpeg_path, ffprobe_path, stdout, exit_code, runData >>

\* what every stage of the pipeline leaves alone
stageFrame == << envVars, mainVars, segVars, noiseVars, normVars >>

\* a stage raises: the exception leaves process_advanced_audio at once
Raise(exception, stage) ==
    /\ error' = exception
    /\ error_stage' = stage
    /\ pc' = "raised"

\* lines 127-130 with 99-114: ffmpeg writes the temporary WAV file
ExtractOk ==
    /\ pc = "acquire"
    /\ argv = "mp4"
    /\ temp_file' = "exists"
    /\ pc' = "decode"
    /\ UNCHANGED << stageFrame, error, error_stage, sample_rate, decoded, samples,
                    chunkVars, output, output_file >>

\* lines 127-129 with 99-117: the temporary file is created, ffmpeg fails
ExtractFail ==
    /\ pc = "acquire"
    /\ argv = "mp4"
    /\ temp_file' = "exists"
    /\ Raise("RuntimeError", "extract")
    /\ UNCHANGED << stageFrame, sample_rate, decoded, samples, chunkVars, output,
                    output_file >>

\* lines 127-128: not an .mp4 input
SkipExtract ==
    /\ pc = "acquire"
    /\ argv = "audio"
    /\ pc' = "decode"
    /\ UNCHANGED << stageFrame, temp_file, error, error_stage, sample_rate, decoded,
                    samples, chunkVars, output, output_file >>

\* lines 132-133: the decoder yields a mono buffer and its frame rate
DecodeOk ==
    /\ pc = "decode"
    /\ \E rate \in RunRates, buffer \in Buffers(RunLevels, 0, MaxFrames) :
          /\ sample_rate' = rate
          /\ decoded' = buffer
          /\ samples' = buffer
    /\ pc' = "prefilter"
    /\ UNCHANGED << stageFrame, temp_file, error, error_stage, chunkVars, output,
                    output_file >>

\* line 132: the file cannot be decoded
DecodeFail ==
    /\ pc = "decode"
    /\ Raise("CouldntDecodeError", "decode")
    /\ UNCHANGED << stageFrame, temp_file, sample_rate, decoded, samples, chunkVars,
                    output, output_file >>

\* line 135
PreFilter ==
    /\ pc = "prefilter"
    /\ IF RCFilterRaises(samples)
       THEN Raise("IndexError", "prefilter") /\ UNCHANGED samples
       ELSE /\ samples' = HighPassFilter(samples, sample_rate, PreCutoff)
            /\ pc' = "reduce1"
            /\ UNCHANGED << error, error_stage >>
    /\ UNCHANGED << stageFrame, temp_file, sample_rate, decoded, chunkVars, output,
                    output_file >>

\* lines 137-171: first pass of the spectral reducer (the segmenter and the
\* noise profile of lines 139-160 are the actions Segment, CollectGaps and
\* BuildProfile; on a non-empty buffer they do not raise)
ReduceNoise1 ==
    /\ pc = "reduce1"
    /\ samples' = ReduceNoise(samples, 70)
    /\ pc' = "breath"
    /\ UNCHANGED << stageFrame, temp_file, error, error_stage, sample_rate, decoded,
                    chunkVars, output, output_file >>

\* lines 173-174
BreathFilter ==
    /\ pc = "breath"
    /\ IF ButterRaises(sample_rate, BreathCutoff)
       THEN Raise("ValueError", "breath") /\ UNCHANGED samples
       ELSE IF SosfiltfiltRaises(samples)
       THEN Raise("ValueError", "breath_padding") /\ UNCHANGED samples
       ELSE /\ samples' = Sosfiltfilt(samples, sample_rate, BreathCutoff)
            /\ pc' = "reduce2"
            /\ UNCHANGED << error, error_stage >>
    /\ UNCHANGED << stageFrame, temp_file, sample_rate, decoded, chunkVars, output,
                    output_file >>

\* lines 177-186
ReduceNoise2 ==
    /\ pc = "reduce2"
    /\ samples' = ReduceNoise(samples, 50)
    /\ pc' = "compress"
    /\ UNCHANGED << stageFrame, temp_file, error, error_stage, sample_rate, decoded,
                    chunkVars, output, output_file >>

\* lines 188-195
Compress ==
    /\ pc = "compress"
    /\ samples' = CompressDynamicRange(samples)
    /\ pc' = "split"
    /\ UNCHANGED << stageFrame, temp_file, error, error_stage, sample_rate, decoded,
                    chunkVars, output, output_file >>

\* lines 197-202
SplitChunks ==
    /\ pc = "split"
    /\ audio_chunks' = SplitOnSilence(samples, sample_rate)
    /\ pc' = "fade"
    /\ UNCHANGED << stageFrame, temp_file, error, error_stage, sample_rate, decoded,
                    samples, fade_times, faded_chunks, output, output_file >>

\* lines 204-208
FadeChunks ==
    /\ pc = "fade"
    /\ LET times == [k \in 1..Len(audio_chunks) |->
                       FadeTime(DurationMs(audio_chunks[k], sample_rate))]
       IN  /\ fade_times' = times
           /\ IF \E k \in 1..Len(audio_chunks) : FadeRaises(times[k])
              THEN Raise("TypeError", "fade") /\ UNCHANGED faded_chunks
              ELSE /\ faded_chunks' = [k \in 1..Len(audio_chunks) |->
                                         FadeChunk(audio_chunks[k], sample_rate, times[k])]
                   /\ pc' = "concat"
                   /\ UNCHANGED << error, error_stage >>
    /\ UNCHANGED << stageFrame, temp_file, sample_rate, decoded, samples, audio_chunks,
                    output, output_file >>

\* line 210
Concatenate ==
    /\ pc = "concat"
    /\ output' = Flatten(faded_chunks)
    /\ pc' = "normalize"
    /\ UNCHANGED << stageFrame, temp_file, error, error_stage, sample_rate, decoded,
                    samples, chunkVars, output_file >>

\* lines 212-213
NormalizeOutput ==
    /\ pc = "normalize"
    /\ \E nan \in NanSamples : output' = NormalizerStage(output, nan)
    /\ pc' = "lowpass"
    /\ UNCHANGED << stageFrame, temp_file, error, error_stage, sample_rate, decoded,
                    samples, chunkVars, output_file >>

\* line 215, output.low_pass_filter(10000)
LowPass ==
    /\ pc = "lowpass"
    /\ IF RCFilterRaises(output)
       THEN Raise("IndexError", "lowpass") /\ UNCHANGED output
       ELSE /\ output' = LowPassFilter(output, sample_rate, LowPassCutoff)
            /\ pc' = "highpass"
            /\ UNCHANGED << error, error_stage >>
    /\ UNCHANGED << stageFrame, temp_file, sample_rate, decoded, samples, chunkVars,
                    output_file >>

\* line 215, .high_pass_filter(120)
PostHighPass ==
    /\ pc = "highpass"
    /\ IF RCFilterRaises(output)
       THEN Raise("IndexError", "highpass") /\ UNCHANGED output
       ELSE /\ output' = HighPassFilter(output, sample_rate, PostHighPassCutoff)
            /\ pc' = "export"
            /\ UNCHANGED << error, error_stage >>
    /\ UNCHANGED << stageFrame, temp_file, sample_rate, decoded, samples, chunkVars,
                    output_file >>

\* line 217: the encoder writes the output file
ExportOk ==
    /\ pc = "export"
    /\ output_file' = TRUE
    /\ pc' = "cleanup"
    /\ UNCHANGED << stageFrame, temp_file, error, error_stage, sample_rate, decoded,
                    samples, chunkVars, output >>

\* line 217: the encoder fails
ExportFail ==
    /\ pc = "export"
    /\ Raise("CouldntEncodeError", "export")
    /\ UNCHANGED << stageFrame, temp_file, sample_rate, decoded, samples, chunkVars,
                    output, output_file >>

\* lines 219-221
Cleanup ==
    /\ pc = "cleanup"
    /\ temp_file' = IF temp_file = "exists" THEN "removed" ELSE temp_file
    /\ pc' = "returned"
    /\ UNCHANGED << stageFrame, error, error_stage, sample_rate, decoded, samples,
                    chunkVars, output, output_file >>

\* line 273: the call returned
MainSuccess ==
    /\ pc = "returned"
    /\ stdout' = stdout \cup {"success"}
    /\ exit_code' = 0
    /\ pc' = "exit"
    /\ UNCHANGED << argv, ffmpeg_path, ffprobe_path, started, runData >>

\* the handler forgets sys.exit(1)
MainExcept_NoExit ==
    /\ pc = "raised"
    /\ stdout' = stdout \cup {"error_processing", "instructions"}
    /\ exit_code' = 0
    /\ pc' = "exit"
    /\ UNCHANGED << argv, ffmpeg_path, ffprobe_path, started, runData >>

\* lines 274-277: except Exception
MainExcept ==
    /\ pc = "raised"
    /\ stdout' = stdout \cup {"error_processing", "instructions"}
    /\ exit_code' = 1
    /\ pc' = "exit"
    /\ UNCHANGED << argv, ffmpeg_path, ffprobe_path, started, runData >>

Next ==
    \/ FindFfmpeg \/ FindFfprobe \/ Configure
    \/ Usage \/ NoFfmpeg \/ NoFfprobe \/ CallPipeline
    \/ ExtractOk \/ ExtractFail \/ SkipExtract \/ DecodeOk \/ DecodeFail
    \/ PreFilter \/ ReduceNoise1 \/ BreathFilter \/ ReduceNoise2 \/ Compress
    \/ SplitChunks \/ FadeChunks \/ Concatenate \/ NormalizeOutput
    \/ LowPass \/ PostHighPass \/ ExportOk \/ ExportFail \/ Cleanup
    \/ MainSuccess \/ MainExcept

Spec == Init /\ [][Next]_vars

-----------------------------------------------------------------------------
(* Claims about a run *)

\* the stages of process_advanced_audio, in order
PipelineOrder ==
    << "acquire", "decode", "prefilter", "reduce1", "breath", "reduce2", "compress",
       "split", "fade", "concat", "normalize", "lowpass", "highpass", "export",
       "cleanup", "returned" >>

Pos(stage) == CHOOSE i \in 1..Len(PipelineOrder) : PipelineOrder[i] = stage

\* the stage at which an exception was raised
RaisedAt ==
    IF error_stage = "extract" THEN "acquire"
    ELSE IF error_stage = "breath_padding" THEN "breath"
    ELSE error_stage

\* how far the pipeline got: the position of the stage it is at, or raised at
Progress ==
    IF pc \in {PipelineOrder[i] : i \in 1..Len(PipelineOrder)} THEN Pos(pc)
    ELSE IF error_stage # "none" THEN Pos(RaisedAt)
    ELSE IF "success" \in stdout THEN Len(PipelineOrder)
    ELSE 0

\* the stage completed without raising
Passed(stage) == Progress > Pos(stage)

\* the decoded buffer is not empty and all its samples are zero
SilentInput == Len(decoded) > 0 /\ \A i \in 1..Len(decoded) : decoded[i].v = 0

\* C3: a run on a non-empty, entirely silent buffer (long enough for the
\* breath filter and for silence detection, at a rate the breath filter
\* accepts) yields at most one chunk and no stage up to the post-filter raises
C3_SilentRunNeverErrors ==
    (/\ started
     /\ SilentInput
     /\ Len(decoded) > padlen
     /\ DurationMs(decoded, sample_rate) >= min_silence_len
     /\ ~ButterRaises(sample_rate, BreathCutoff))
    => /\ error \in {"none", "CouldntEncodeError"}
       /\ Len(audio_chunks) <= 1

\* the filter stages and their cutoffs
FilterStages ==
    { << "prefilter", PreCutoff >>, << "breath", BreathCutoff >>,
      << "lowpass", LowPassCutoff >>, << "highpass", PostHighPassCutoff >> }

\* C4 (as stated): a filter stage whose cutoff is at or above sample_rate / 2
\* is never passed: the run aborts there and writes no output file
C4_EveryCutoffChecked ==
    sample_rate > 0 =>
        \A f \in FilterStages :
            2 * f[2] >= sample_rate => ~Passed(f[1]) /\ ~output_file

C4_BreathCutoffChecked ==
    /\ (sample_rate > 0 /\ 2 * BreathCutoff >= sample_rate) =>
          /\ ~Passed("breath")
          /\ ~output_file
          /\ (pc \in {"raised", "exit"} /\ Progress = Pos("breath")) =>
                (error = "ValueError" /\ error_stage = "breath")
    /\ error_stage = "prefilter" => (error = "IndexError" /\ samples = << >>)
    /\ error_stage \in {"lowpass", "highpass"} => (error = "IndexError" /\ output = << >>)

C4_RCFiltersApplied ==
    /\ (pc = "prefilter" /\ samples # << >>) => pc' = "reduce1"
    /\ (pc = "lowpass" /\ output # << >>) => pc' = "highpass"
    /\ (pc = "highpass" /\ output # << >>) => pc' = "export"

\* C4 (amended): only the breath high-pass checks its cutoff: with
\* breath_cutoff at or above sample_rate / 2 the run aborts at that stage (when
\* it gets there) and writes no output file; the 80 Hz pre-filter, the 10 kHz
\* low-pass and the 120 Hz high-pass are applied whatever the sample rate and
\* abort only on an empty buffer
C4_OnlyBreathCutoffChecked ==
    []C4_BreathCutoffChecked /\ [][C4_RCFiltersApplied]_vars

C4_Witness ==
    /\ 2 * PreCutoff >= sample_rate
    /\ Passed("prefilter")
    /\ pc = "raised"
    /\ error_stage = "breath"

\* C5: once a run on an .mp4 input has ended, completed or aborted, its
\* temporary audio file does not exist
C5_TempFileRemoved ==
    (pc = "exit" /\ argv = "mp4" /\ started) => temp_file # "exists"

\* C7: the stages before the chunk splitter keep the number of samples, and
\* the concatenated output is never longer than the input buffer and keeps the
\* retained samples in their original order
C7_LengthNeverGrows ==
    /\ started => Len(samples) = Len(decoded)
    /\ Len(output) <= Len(decoded)
    /\ \A i, j \in 1..Len(output) :
          (i < j /\ output[i].src # 0 /\ output[j].src # 0)
              => output[i].src < output[j].src

\* C9: an invocation that meets an unrecoverable error (ffmpeg or ffprobe not
\* found, extraction, decoding or a stage raised) prints a diagnostic and exits
\* with a non-zero status; the success message is printed only after the
\* pipeline returned without raising; the pipeline is never started without
\* ffmpeg and ffprobe
C9_ErrorsReported ==
    /\ (pc = "exit" /\ argv # "none" /\ ffmpeg_path = "None") =>
          (exit_code > 0 /\ "error_ffmpeg" \in stdout)
    /\ (pc = "exit" /\ argv # "none" /\ ffmpeg_path # "None" /\ ffprobe_path = "None") =>
          (exit_code > 0 /\ "error_ffprobe" \in stdout)
    /\ (pc = "exit" /\ argv = "none" /\ (ffmpeg_path = "None" \/ ffprobe_path = "None")) =>
          (exit_code > 0 /\ "instructions" \in stdout)
    /\ (pc = "exit" /\ error # "none") =>
          (exit_code > 0 /\ "error_processing" \in stdout)
    /\ "success" \in stdout =>
          (started /\ error = "none" /\ output_file /\ exit_code = 0)
    /\ started => (ffmpeg_path # "None" /\ ffprobe_path # "None")

C9_Witness ==
    /\ pc = "exit"
    /\ error = "RuntimeError"
    /\ "error_processing" \in stdout
    /\ exit_code = 1

=============================================================================
